---- MODULE Spec2Model ----
(***************************************************************************)
(* Model of the e-waste estimator front end.                               *)
(*                                                                         *)
(* The repository holds two copies of the page script:                     *)
(*   src/frontend/script.js  - POSTs a multipart body, checks the file     *)
(*                             only ("script" below);                      *)
(*   src/unnamed/part_000    - checks brand and model, then the file, and  *)
(*                             GETs a query string ("part000" below).      *)
(* Lines 108-137 of part_000 are an orphaned copy of the response handling *)
(* that follows the closed submit listener; the listener modelled for      *)
(* part_000 is lines 51-105.                                               *)
(*                                                                         *)
(* The state is the DOM state the handlers read and write, the pending     *)
(* FileReader reads and the suspended submit handlers.  One action per     *)
(* event: file change, FileReader load, submit, and the settlements of     *)
(* the two awaits of the submit handler (fetch, response.json).            *)
(***************************************************************************)
EXTENDS Integers, Sequences, FiniteSets, TLC

VARIABLES
    variant,          \* which script the page loaded
    selectedFile,     \* imageUpload.files[0]
    fileNameDisplay,  \* fileNameDisplay.textContent
    previewHidden,    \* imagePreviewContainer has class 'hidden'
    previewSrc,       \* imagePreview.src
    statusMessage,    \* [text, class] of the status element
    resultsHidden,    \* resultsDisplay has class 'hidden'
    priceRange,       \* priceRangeDisplay.textContent
    detectedInfo,     \* detectedInfoDisplay.textContent
    submitButton,     \* [disabled, text, spinnerHidden]
    handlers,         \* suspended invocations of the submit listener
    reads,            \* files whose readAsDataURL has not yet completed
    event             \* the event handled last (history variable)

vars == <<variant, selectedFile, fileNameDisplay, previewHidden, previewSrc,
          statusMessage, resultsHidden, priceRange, detectedInfo,
          submitButton, handlers, reads, event>>

dom == <<fileNameDisplay, previewHidden, previewSrc, statusMessage,
         resultsHidden, priceRange, detectedInfo, submitButton>>

(***************************************************************************)
(* Bounds                                                                  *)
(***************************************************************************)
MaxReads == 2      \* FileReader reads pending at once
MaxHandlers == 2   \* submit handlers suspended at once

(***************************************************************************)
(* Inputs                                                                  *)
(***************************************************************************)
Variants == {"script", "part000"}

NoFile == "<no file>"
Name30 == "photo_of_old_phone_front_1.jpg"
Name31 == "photo_of_old_phone_front_12.jpg"
Files == {"device.jpg", Name30, Name31}

BrandValues == {"", "  ", " Acme "}
ModelValues == {"", " ", "X100"}
IssuesValues == {"", " won't turn on "}

Undefined == "<undefined>"
\* what response.json() settles with: an object, null, or a rejection
Body(price, info, err) ==
    [kind |-> "object", estimated_price |-> price, detected_info |-> info,
     error |-> err]
JsonNull ==
    [kind |-> "null", estimated_price |-> Undefined,
     detected_info |-> Undefined, error |-> Undefined]
NotJson ==
    [kind |-> "notjson", estimated_price |-> Undefined,
     detected_info |-> Undefined, error |-> Undefined]
NoBody ==
    [kind |-> "none", estimated_price |-> Undefined,
     detected_info |-> Undefined, error |-> Undefined]
Bodies ==
    { Body("$20-30", "Acme X100 smartphone", Undefined),
      Body("$20-30", Undefined, Undefined),
      Body(Undefined, "Acme X100 smartphone", Undefined),
      Body(Undefined, Undefined, Undefined),
      Body(Undefined, Undefined, "model unavailable"),
      Body(Undefined, Undefined, ""),
      NotJson, JsonNull }

Responses ==
    { [status |-> 200, statusText |-> "OK"],
      [status |-> 404, statusText |-> "Not Found"],
      [status |-> 500, statusText |-> "Internal Server Error"] }

NoResponse == [status |-> 0, statusText |-> ""]

NetErrors == {"Failed to fetch"}

(***************************************************************************)
(* JavaScript primitives                                                   *)
(***************************************************************************)
\* a field value is truthy unless it is undefined or the empty string
Truthy(v) == v # Undefined /\ v # ""

RECURSIVE TrimLeft(_)
TrimLeft(s) ==
    IF s # "" /\ Head(s) = " " THEN TrimLeft(Tail(s)) ELSE s

RECURSIVE TrimRight(_)
TrimRight(s) ==
    IF s # "" /\ SubSeq(s, Len(s), Len(s)) = " "
    THEN TrimRight(SubSeq(s, 1, Len(s) - 1))
    ELSE s

\* String.prototype.trim
Trim(s) == TrimRight(TrimLeft(s))

\* encodeURIComponent on the characters the inputs use: a space becomes %20
RECURSIVE EncodeURIComponent(_)
EncodeURIComponent(s) ==
    IF s = "" THEN ""
    ELSE (IF Head(s) = " " THEN "%20" ELSE SubSeq(s, 1, 1))
         \o EncodeURIComponent(Tail(s))

Digit(d) == SubSeq("0123456789", d + 1, d + 1)

\* a number inside a template literal
RECURSIVE NumToStr(_)
NumToStr(n) ==
    IF n < 10 THEN Digit(n) ELSE NumToStr(n \div 10) \o Digit(n % 10)

\* Response.ok
Ok(response) == response.status >= 200 /\ response.status <= 299

\* the data URI FileReader.readAsDataURL produces for a file
DataURL(f) == "data:" \o f

(***************************************************************************)
(* Messages.  part_000 prefixes its messages with an emoji, written here   *)
(* as "(warning) " and "(x) ".                                             *)
(***************************************************************************)
NoFileChosen == "No file chosen"

SelectImageMsg(v) ==
    IF v = "script" THEN "Please select an image file first."
    ELSE "(warning) Please select an image file first."

BrandModelMsg == "(warning) Please enter both brand and model."

NoEstimateMsg == "(warning) No valid estimate found."

ConnectivityMsg(v) ==
    IF v = "script"
    THEN "Network Error: Could not connect to the estimation server. Please try again later."
    ELSE "(x) Could not connect to the estimation server. Try again later."

\* errorMsg of the non-ok branch of script.js
ServiceErrorMsg(response, body) ==
    IF body.kind = "object" /\ Truthy(body.error)
    THEN "Error: " \o body.error
    ELSE "Error: " \o NumToStr(response.status) \o " - " \o response.statusText

(***************************************************************************)
(* Helper functions of the scripts, as the values they write               *)
(***************************************************************************)
\* variant that shows the busy label and spinner but leaves the button enabled
SetLoadingStateLeavesEnabled(isLoading) ==
    [disabled |-> FALSE,
     text |-> IF isLoading THEN "Processing..." ELSE "Get Estimate",
     spinnerHidden |-> ~isLoading]

SetLoadingState(isLoading) ==
    [disabled |-> isLoading,
     text |-> IF isLoading THEN "Processing..." ELSE "Get Estimate",
     spinnerHidden |-> ~isLoading]

ShowStatus(message, type) ==
    [text |-> message,
     class |-> IF type = "error" THEN "status error"
               ELSE IF type = "loading" THEN "status loading"
               ELSE "status"]

ClearStatus == [text |-> "", class |-> "status"]

\* variant of the finally block that does nothing
FinallyMissing == submitButton

\* the finally block of the submit listener
Finally == SetLoadingState(FALSE)

\* variant that writes the fields without the || fallbacks
DisplayResultsNoFallback(result) ==
    [price |-> result.estimated_price,
     info |-> result.detected_info]

\* displayResults: the two texts it writes; it also reveals the panel
DisplayResults(result) ==
    [price |-> IF Truthy(result.estimated_price)
               THEN result.estimated_price ELSE "N/A",
     info |-> IF Truthy(result.detected_info)
              THEN result.detected_info
              ELSE "Analysis details not available."]

\* variant that truncates from 30 characters on instead of from 31
DisplayNameFrom30(name) ==
    IF Len(name) >= 30 THEN SubSeq(name, 1, 27) \o "..." ELSE name

\* the file name shown next to the picker
DisplayName(name) ==
    IF Len(name) > 30 THEN SubSeq(name, 1, 27) \o "..." ELSE name

(***************************************************************************)
(* The synchronous checks of the submit listener, in the order each script *)
(* makes them: "ok", or the message of the first check that fails.         *)
(***************************************************************************)
\* variant that rejects only when brand and model are both empty
ValidateBothEmpty(v, file, brand, model) ==
    IF v = "script"
    THEN IF file = NoFile THEN SelectImageMsg(v) ELSE "ok"
    ELSE IF brand = "" /\ model = "" THEN BrandModelMsg
         ELSE IF file = NoFile THEN SelectImageMsg(v)
         ELSE "ok"

Validate(v, file, brand, model) ==
    IF v = "script"
    THEN IF file = NoFile THEN SelectImageMsg(v) ELSE "ok"
    ELSE IF brand = "" \/ model = "" THEN BrandModelMsg
         ELSE IF file = NoFile THEN SelectImageMsg(v)
         ELSE "ok"

(***************************************************************************)
(* The outbound calls one invocation of the listener issues.               *)
(***************************************************************************)
NoImage == "<no body>"

\* variant that issues the call a second time
FetchTwice(v, file, brand, model, issues) ==
    LET req == [method |-> IF v = "script" THEN "POST" ELSE "GET",
                url |-> "/estimate",
                image |-> IF v = "script" THEN file ELSE NoImage,
                brand |-> brand, model |-> model, issues |-> issues]
    IN  << req, req >>

Fetch(v, file, brand, model, issues) ==
    IF v = "script"
    THEN << [method |-> "POST", url |-> "/estimate", image |-> file,
             brand |-> brand, model |-> model, issues |-> issues] >>
    ELSE << [method |-> "GET",
             url |-> "/estimate?brand=" \o EncodeURIComponent(brand)
                     \o "&model=" \o EncodeURIComponent(model)
                     \o "&issues=" \o EncodeURIComponent(issues),
             image |-> NoImage,
             brand |-> brand, model |-> model, issues |-> issues] >>

(***************************************************************************)
(* Initial state: the page as loaded.  script.js runs resetUI(); part_000  *)
(* relies on the markup, taken to start with both panels hidden.           *)
(***************************************************************************)
Init ==
    /\ variant \in Variants
    /\ selectedFile = NoFile
    /\ fileNameDisplay = NoFileChosen
    /\ previewHidden = TRUE
    /\ previewSrc = (IF variant = "script" THEN "" ELSE "#")
    /\ statusMessage = ClearStatus
    /\ resultsHidden = TRUE
    /\ priceRange = ""
    /\ detectedInfo = ""
    /\ submitButton = SetLoadingState(FALSE)
    /\ handlers = << >>
    /\ reads = << >>
    /\ event = [kind |-> "load"]

\* s without its i-th element
Remove(s, i) == SubSeq(s, 1, i - 1) \o SubSeq(s, i + 1, Len(s))

\* the UI state of the specification, read off the DOM
UIState ==
    IF submitButton.disabled THEN "Submitting"
    ELSE IF ~resultsHidden THEN "ResultShown"
    ELSE IF statusMessage.class = "status error" THEN "ErrorShown"
    ELSE IF selectedFile # NoFile THEN "Previewing"
    ELSE "Idle"

(***************************************************************************)
(* change event of the file input.  The browser fires it when the          *)
(* selection changes; f is the new files[0].                               *)
(***************************************************************************)
\* variant that leaves the old status and result on screen for a new file
FileChangeKeepsResult(f) ==
    /\ f # selectedFile
    /\ selectedFile' = f
    /\ IF f # NoFile
       THEN /\ Len(reads) < MaxReads
            /\ fileNameDisplay' = DisplayName(f)
            /\ reads' = Append(reads, f)
            /\ UNCHANGED <<statusMessage, resultsHidden>>
            /\ UNCHANGED <<previewHidden, previewSrc>>
       ELSE /\ fileNameDisplay' = NoFileChosen
            /\ previewHidden' = TRUE
            /\ previewSrc' = (IF variant = "script" THEN "" ELSE "#")
            /\ IF variant = "script"
               THEN statusMessage' = ClearStatus /\ resultsHidden' = TRUE
               ELSE UNCHANGED <<statusMessage, resultsHidden>>
            /\ UNCHANGED reads
    /\ event' = [kind |-> "change", file |-> f, from |-> UIState,
                 preview |-> <<previewHidden, previewSrc>>]
    /\ UNCHANGED <<variant, priceRange, detectedInfo, submitButton, handlers>>

FileChange(f) ==
    /\ f # selectedFile
    /\ selectedFile' = f
    /\ IF f # NoFile
       THEN /\ Len(reads) < MaxReads
            /\ fileNameDisplay' = DisplayName(f)
            /\ reads' = Append(reads, f)
            /\ statusMessage' = ClearStatus
            /\ resultsHidden' = TRUE
            /\ UNCHANGED <<previewHidden, previewSrc>>
       ELSE /\ fileNameDisplay' = NoFileChosen
            /\ previewHidden' = TRUE
            /\ previewSrc' = (IF variant = "script" THEN "" ELSE "#")
            /\ IF variant = "script"
               THEN statusMessage' = ClearStatus /\ resultsHidden' = TRUE
               ELSE UNCHANGED <<statusMessage, resultsHidden>>
            /\ UNCHANGED reads
    /\ event' = [kind |-> "change", file |-> f, from |-> UIState,
                 preview |-> <<previewHidden, previewSrc>>]
    /\ UNCHANGED <<variant, priceRange, detectedInfo, submitButton, handlers>>

(***************************************************************************)
(* reader.onload of the i-th pending read                                  *)
(***************************************************************************)
ReaderLoad(i) ==
    /\ i \in 1..Len(reads)
    /\ previewSrc' = DataURL(reads[i])
    /\ previewHidden' = FALSE
    /\ reads' = Remove(reads, i)
    /\ event' = [kind |-> "onload", file |-> reads[i]]
    /\ UNCHANGED <<variant, selectedFile, fileNameDisplay, statusMessage,
                   resultsHidden, priceRange, detectedInfo, submitButton,
                   handlers>>

(***************************************************************************)
(* The catch block: the status it shows for the error it caught.           *)
(***************************************************************************)
\* variant that shows the message of the caught error
CatchStatusRaw(v, error) == ShowStatus(error, "error")

CatchStatus(v, error) == ShowStatus(ConnectivityMsg(v), "error")

\* the Error part_000 throws for a response that is not ok
ServerError(response) ==
    "Server error: " \o NumToStr(response.status) \o " - "
        \o response.statusText

(***************************************************************************)
(* What the listener does once response.json() has settled with body, up   *)
(* to but excluding the finally block: the path taken and the status,      *)
(* panel visibility and result texts it leaves.                            *)
(***************************************************************************)
Caught(v, error, path) ==
    [path |-> path,
     status |-> CatchStatus(v, error),
     hidden |-> IF v = "script" THEN TRUE ELSE resultsHidden,
     price |-> priceRange, info |-> detectedInfo]

Shown(result) ==
    [path |-> "success",
     status |-> statusMessage,
     hidden |-> FALSE,
     price |-> DisplayResults(result).price,
     info |-> DisplayResults(result).info]

AfterJson(v, response, body) ==
    IF v = "script"
    THEN IF Ok(response)
         THEN IF body.kind = "notjson"
              THEN Caught(v, "SyntaxError", "parse")
              ELSE IF body.kind = "null"
              THEN Caught(v, "TypeError", "parse")
              ELSE Shown(body)
         ELSE [path |-> "http",
               status |-> ShowStatus(ServiceErrorMsg(response, body), "error"),
               hidden |-> TRUE,
               price |-> priceRange, info |-> detectedInfo]
    ELSE IF body.kind = "notjson"
         THEN Caught(v, "SyntaxError", "parse")
         ELSE IF body.kind = "null"
         THEN Caught(v, "TypeError", "parse")
         ELSE IF ~Truthy(body.estimated_price)
         THEN [path |-> "soft",
               status |-> ShowStatus(NoEstimateMsg, "error"),
               hidden |-> resultsHidden,
               price |-> priceRange, info |-> detectedInfo]
         ELSE Shown(body)

(***************************************************************************)
(* submit event of the form, with the raw values of the three text inputs. *)
(* The browser does not submit a form through a disabled submit button,    *)
(* which is the only guard: the listener itself has none.                  *)
(***************************************************************************)
\* variant that does not hide the old results when a request starts
SubmitKeepsResults(b, m, i) ==
    /\ ~submitButton.disabled
    /\ Len(handlers) < MaxHandlers
    /\ LET brand == Trim(b)
           model == Trim(m)
           issues == Trim(i)
           file == selectedFile
           verdict == Validate(variant, file, brand, model)
           calls == Fetch(variant, file, brand, model, issues)
       IN  IF verdict # "ok"
           THEN /\ statusMessage' = ShowStatus(verdict, "error")
                /\ event' = [kind |-> "submit", valid |-> FALSE,
                             file |-> file, brand |-> brand, model |-> model,
                             calls |-> 0]
                /\ UNCHANGED <<submitButton, resultsHidden, handlers>>
           ELSE /\ submitButton' = SetLoadingState(TRUE)
                /\ statusMessage' = ClearStatus
                /\ UNCHANGED resultsHidden
                /\ handlers' = Append(handlers,
                                  [pc |-> "fetch", file |-> file,
                                   calls |-> calls, response |-> NoResponse])
                /\ event' = [kind |-> "submit", valid |-> TRUE,
                             file |-> file, brand |-> brand, model |-> model,
                             calls |-> Len(calls)]
    /\ UNCHANGED <<variant, selectedFile, fileNameDisplay, previewHidden,
                   previewSrc, priceRange, detectedInfo, reads>>

\* variant that prepares the UI for loading before it validates
SubmitLoadsFirst(b, m, i) ==
    /\ ~submitButton.disabled
    /\ Len(handlers) < MaxHandlers
    /\ LET brand == Trim(b)
           model == Trim(m)
           issues == Trim(i)
           file == selectedFile
           verdict == Validate(variant, file, brand, model)
           calls == Fetch(variant, file, brand, model, issues)
       IN  IF verdict # "ok"
           THEN /\ submitButton' = SetLoadingState(TRUE)
                /\ resultsHidden' = TRUE
                /\ statusMessage' = ShowStatus(verdict, "error")
                /\ event' = [kind |-> "submit", valid |-> FALSE,
                             file |-> file, brand |-> brand, model |-> model,
                             calls |-> 0]
                /\ UNCHANGED handlers
           ELSE /\ submitButton' = SetLoadingState(TRUE)
                /\ statusMessage' = ClearStatus
                /\ resultsHidden' = TRUE
                /\ handlers' = Append(handlers,
                                  [pc |-> "fetch", file |-> file,
                                   calls |-> calls, response |-> NoResponse])
                /\ event' = [kind |-> "submit", valid |-> TRUE,
                             file |-> file, brand |-> brand, model |-> model,
                             calls |-> Len(calls)]
    /\ UNCHANGED <<variant, selectedFile, fileNameDisplay, previewHidden,
                   previewSrc, priceRange, detectedInfo, reads>>

Submit(b, m, i) ==
    /\ ~submitButton.disabled
    /\ Len(handlers) < MaxHandlers
    /\ LET brand == Trim(b)
           model == Trim(m)
           issues == Trim(i)
           file == selectedFile
           verdict == Validate(variant, file, brand, model)
           calls == Fetch(variant, file, brand, model, issues)
       IN  IF verdict # "ok"
           THEN /\ statusMessage' = ShowStatus(verdict, "error")
                /\ event' = [kind |-> "submit", valid |-> FALSE,
                             file |-> file, brand |-> brand, model |-> model,
                             calls |-> 0]
                /\ UNCHANGED <<submitButton, resultsHidden, handlers>>
           ELSE /\ submitButton' = SetLoadingState(TRUE)
                /\ statusMessage' = ClearStatus
                /\ resultsHidden' = TRUE
                /\ handlers' = Append(handlers,
                                  [pc |-> "fetch", file |-> file,
                                   calls |-> calls, response |-> NoResponse])
                /\ event' = [kind |-> "submit", valid |-> TRUE,
                             file |-> file, brand |-> brand, model |-> model,
                             calls |-> Len(calls)]
    /\ UNCHANGED <<variant, selectedFile, fileNameDisplay, previewHidden,
                   previewSrc, priceRange, detectedInfo, reads>>

(***************************************************************************)
(* The fetch of the k-th suspended handler rejects: catch, then finally.   *)
(***************************************************************************)
FetchReject(k, error) ==
    /\ k \in 1..Len(handlers)
    /\ handlers[k].pc = "fetch"
    /\ LET out == Caught(variant, error, "transport")
       IN  /\ statusMessage' = out.status
           /\ resultsHidden' = out.hidden
    /\ submitButton' = Finally
    /\ handlers' = Remove(handlers, k)
    /\ event' = [kind |-> "done", path |-> "transport", error |-> error,
                 response |-> NoResponse, body |-> NoBody,
                 file |-> handlers[k].file]
    /\ UNCHANGED <<variant, selectedFile, fileNameDisplay, previewHidden,
                   previewSrc, priceRange, detectedInfo, reads>>

(***************************************************************************)
(* The fetch of the k-th suspended handler resolves with a response.       *)
(* script.js goes on to await response.json() in both branches; part_000   *)
(* throws when the response is not ok, and awaits response.json()          *)
(* otherwise.                                                              *)
(***************************************************************************)
FetchResolve(k, response) ==
    /\ k \in 1..Len(handlers)
    /\ handlers[k].pc = "fetch"
    /\ IF variant = "part000" /\ ~Ok(response)
       THEN /\ LET out == Caught(variant, ServerError(response), "http")
               IN  /\ statusMessage' = out.status
                   /\ resultsHidden' = out.hidden
            /\ submitButton' = Finally
            /\ handlers' = Remove(handlers, k)
            /\ event' = [kind |-> "done", path |-> "http",
                         error |-> ServerError(response),
                         response |-> response, body |-> NoBody,
                         file |-> handlers[k].file]
       ELSE /\ handlers' = [handlers EXCEPT ![k].pc = "json",
                                            ![k].response = response]
            /\ event' = [kind |-> "response", response |-> response]
            /\ UNCHANGED <<statusMessage, resultsHidden, submitButton>>
    /\ UNCHANGED <<variant, selectedFile, fileNameDisplay, previewHidden,
                   previewSrc, priceRange, detectedInfo, reads>>

(***************************************************************************)
(* response.json() of the k-th suspended handler settles with body; the    *)
(* rest of the try block runs, then finally.                               *)
(***************************************************************************)
JsonSettle(k, body) ==
    /\ k \in 1..Len(handlers)
    /\ handlers[k].pc = "json"
    /\ LET out == AfterJson(variant, handlers[k].response, body)
       IN  /\ statusMessage' = out.status
           /\ resultsHidden' = out.hidden
           /\ priceRange' = out.price
           /\ detectedInfo' = out.info
           /\ event' = [kind |-> "done", path |-> out.path, error |-> "",
                        response |-> handlers[k].response, body |-> body,
                        file |-> handlers[k].file]
    /\ submitButton' = Finally
    /\ handlers' = Remove(handlers, k)
    /\ UNCHANGED <<variant, selectedFile, fileNameDisplay, previewHidden,
                   previewSrc, reads>>

Next ==
    \/ \E f \in Files \cup {NoFile} : FileChange(f)
    \/ \E r \in 1..MaxReads : ReaderLoad(r)
    \/ \E b \in BrandValues, m \in ModelValues, i \in IssuesValues :
          Submit(b, m, i)
    \/ \E k \in 1..MaxHandlers, e \in NetErrors : FetchReject(k, e)
    \/ \E k \in 1..MaxHandlers, r \in Responses : FetchResolve(k, r)
    \/ \E k \in 1..MaxHandlers, body \in Bodies : JsonSettle(k, body)

Spec == Init /\ [][Next]_vars

\* every started fetch and every started body read eventually settles
Settles ==
    \/ \E k \in 1..MaxHandlers, e \in NetErrors : FetchReject(k, e)
    \/ \E k \in 1..MaxHandlers, r \in Responses : FetchResolve(k, r)
    \/ \E k \in 1..MaxHandlers, body \in Bodies : JsonSettle(k, body)

LiveSpec == Init /\ [][Next]_vars /\ WF_vars(Settles)

TypeOK ==
    /\ variant \in Variants
    /\ selectedFile \in Files \cup {NoFile}
    /\ previewHidden \in BOOLEAN
    /\ resultsHidden \in BOOLEAN
    /\ submitButton.disabled \in BOOLEAN
    /\ Len(handlers) <= MaxHandlers
    /\ Len(reads) <= MaxReads

(***************************************************************************)
(* Properties                                                              *)
(***************************************************************************)
RECURSIVE CallsOf(_)
\* the outbound calls of the suspended handlers hs, not yet fully answered
CallsOf(hs) ==
    IF hs = << >> THEN << >> ELSE Head(hs).calls \o CallsOf(Tail(hs))

InFlight == Len(CallsOf(handlers))

\* C1: at most one estimate request is in flight, and the submit control is
\* disabled whenever one is.
C1_OneRequestInFlight ==
    /\ InFlight <= 1
    /\ InFlight > 0 => submitButton.disabled

\* a file was selected or cleared while the request was in flight
C1_Witness ==
    /\ InFlight = 1
    /\ event.kind = "change"
    /\ submitButton.disabled

ValidSubmission ==
    /\ event.kind = "submit"
    /\ event.file # NoFile
    /\ event.brand # ""
    /\ event.model # ""

Terminal == UIState \in {"ResultShown", "ErrorShown"}

\* C2: a submission with a file and non-empty trimmed brand and model issues
\* exactly one outbound call and, once the call settles, the controller
\* reaches ResultShown or ErrorShown instead of staying in Submitting.
C2_OneCallThenTerminal ==
    /\ [](ValidSubmission =>
            /\ event.calls = 1
            /\ InFlight = 1
            /\ UIState = "Submitting")
    /\ (UIState = "Submitting" ~> Terminal)

\* a valid submission has just issued its call
C2_Witness ==
    /\ ValidSubmission
    /\ event.calls = 1
    /\ handlers # << >>

\* C3: the submit control is disabled while a handler is suspended, and on
\* every exit path of the handler it is enabled again, as it was when the
\* submit event fired, with its label restored and the spinner hidden.
C3_ControlRestored ==
    /\ handlers # << >> =>
          /\ submitButton.disabled
          /\ submitButton.text = "Processing..."
          /\ ~submitButton.spinnerHidden
    /\ event.kind = "done" =>
          /\ ~submitButton.disabled
          /\ submitButton.text = "Get Estimate"
          /\ submitButton.spinnerHidden

\* the handler left through the return inside the try block
C3_Witness ==
    /\ event.kind = "done"
    /\ event.path = "soft"
    /\ ~submitButton.disabled

\* C4: a submit with no file selected makes no network call and shows the
\* "select an image" message, whatever brand, model and issues are.
C4_FileCheckedFirst ==
    (event.kind = "submit" /\ event.file = NoFile) =>
        /\ event.calls = 0
        /\ handlers = << >>
        /\ statusMessage.text = SelectImageMsg(variant)

MissingBrandOrModel ==
    /\ event.kind = "submit"
    /\ event.file # NoFile
    /\ (event.brand = "" \/ event.model = "")

BrandModelRejected ==
    /\ ~event.valid
    /\ event.calls = 0
    /\ handlers = << >>
    /\ statusMessage = [text |-> "(warning) Please enter both brand and model.",
                        class |-> "status error"]

\* C5 as stated: a submit with a file but an empty trimmed brand or model
\* fails with the brand/model message and makes no network call.
C5_BrandModelRequired == MissingBrandOrModel => BrandModelRejected

\* C5 as amended: the same, for the listener of part_000.
C5_BrandModelRequiredStrict ==
    (variant = "part000" /\ MissingBrandOrModel) => BrandModelRejected

\* part_000 rejected a submit that had a file and a brand but no model
C5_Witness ==
    /\ variant = "part000"
    /\ MissingBrandOrModel
    /\ event.brand # ""
    /\ statusMessage.class = "status error"

GenericConnectivityMsgs ==
    { "Network Error: Could not connect to the estimation server. Please try again later.",
      "(x) Could not connect to the estimation server. Try again later." }

NonOkResponse ==
    /\ event.kind = "done"
    /\ event.response # NoResponse
    /\ ~Ok(event.response)

\* C6: after a response that is not 2xx the controller is in ErrorShown and
\* the status is "Error: <error>" when the body is JSON with a non-empty
\* error field, else "Error: <status> - <status text>"; it is never the
\* generic connectivity message.
C6_ServiceErrorShown ==
    NonOkResponse =>
        /\ UIState = "ErrorShown"
        /\ statusMessage.text \notin GenericConnectivityMsgs
        /\ statusMessage.text =
              IF event.body.kind = "object"
                 /\ event.body.error \notin {Undefined, ""}
              THEN "Error: " \o event.body.error
              ELSE "Error: " \o NumToStr(event.response.status) \o " - "
                      \o event.response.statusText

\* C7: after the fetch rejects the controller is in ErrorShown, the status is
\* the fixed connectivity message and not the message of the error, and the
\* results panel is hidden.
C7_TransportErrorGeneric ==
    (event.kind = "done" /\ event.path = "transport") =>
        /\ UIState = "ErrorShown"
        /\ statusMessage.class = "status error"
        /\ statusMessage.text \in GenericConnectivityMsgs
        /\ statusMessage.text # event.error
        /\ resultsHidden

\* the fetch of a submitted request was rejected
C7_Witness ==
    /\ event.kind = "done"
    /\ event.path = "transport"
    /\ event.error \in NetErrors
    /\ statusMessage.text \in GenericConnectivityMsgs

\* C8: a 2xx response whose body parses but has no estimated_price gives the
\* "no valid estimate found" status and leaves the results panel hidden.
C8_SoftErrorOnMissingPrice ==
    ( /\ event.kind = "done"
      /\ Ok(event.response)
      /\ event.body.kind = "object"
      /\ event.body.estimated_price = Undefined ) =>
        /\ statusMessage.text = "(warning) No valid estimate found."
        /\ resultsHidden
        /\ UIState # "ResultShown"

\* C9: every outbound request carries the image of the file selected when
\* the submit event fired, with the trimmed brand, model and issues.
C9_RequestCarriesImage ==
    \A k \in 1..Len(handlers) :
        \A c \in 1..Len(handlers[k].calls) :
            /\ handlers[k].calls[c].image = handlers[k].file
            /\ handlers[k].calls[c].image \in Files
            /\ Trim(handlers[k].calls[c].brand) = handlers[k].calls[c].brand
            /\ Trim(handlers[k].calls[c].model) = handlers[k].calls[c].model
            /\ Trim(handlers[k].calls[c].issues) = handlers[k].calls[c].issues

NewFileAfterOutcome ==
    /\ event.kind = "change"
    /\ event.file # NoFile
    /\ event.from \in {"ResultShown", "ErrorShown"}

\* C10: selecting a new file in ResultShown or ErrorShown clears the status
\* and hides the results panel in the step of the selection, in which the
\* preview is untouched and the read of the new file is still pending; the
\* preview is revealed or replaced only by a FileReader load.
C10_ClearedBeforePreview ==
    /\ [](NewFileAfterOutcome =>
            /\ statusMessage = [text |-> "", class |-> "status"]
            /\ resultsHidden
            /\ <<previewHidden, previewSrc>> = event.preview
            /\ reads # << >>
            /\ reads[Len(reads)] = event.file)
    /\ [][ ( \/ (previewHidden /\ ~previewHidden')
             \/ (previewSrc' # previewSrc /\ ~previewHidden') )
           => event'.kind = "onload" ]_vars

\* a new file was selected while a result was on screen
C10_Witness ==
    /\ NewFileAfterOutcome
    /\ event.from = "ResultShown"
    /\ resultsHidden
    /\ reads # << >>

\* C11: a file-change event with no file resets the display name to the
\* placeholder, hides the preview and clears the status message and the
\* results panel, whatever the state it arrives in.
C11_ClearedSelectionResets ==
    (event.kind = "change" /\ event.file = NoFile) =>
        /\ fileNameDisplay = "No file chosen"
        /\ previewHidden
        /\ statusMessage = [text |-> "", class |-> "status"]
        /\ resultsHidden

EstimateReceived ==
    /\ event.kind = "done"
    /\ Ok(event.response)
    /\ event.body.kind = "object"
    /\ event.body.estimated_price \notin {Undefined, ""}

\* C12: after a 2xx response whose body has an estimated_price the
\* controller is in ResultShown: the results panel is visible, the price
\* field shows estimated_price, the info field shows detected_info or its
\* placeholder when that is absent, and no error status is shown.
C12_ResultRendered ==
    EstimateReceived =>
        /\ UIState = "ResultShown"
        /\ ~resultsHidden
        /\ priceRange = event.body.estimated_price
        /\ detectedInfo =
              IF event.body.detected_info \in {Undefined, ""}
              THEN "Analysis details not available."
              ELSE event.body.detected_info
        /\ statusMessage.class # "status error"
        /\ statusMessage.text = ""

\* an estimate without detected_info was rendered with the placeholder
C12_Witness ==
    /\ EstimateReceived
    /\ event.body.detected_info = Undefined
    /\ priceRange = "$20-30"
    /\ ~resultsHidden

\* C13: the displayed name of the selected file is the file name itself when
\* it has at most 30 characters, and otherwise its first 27 characters
\* followed by "...", 30 characters in all.
C13_NameTruncated ==
    selectedFile # NoFile =>
        IF Len(selectedFile) <= 30
        THEN fileNameDisplay = selectedFile
        ELSE /\ Len(fileNameDisplay) = 30
             /\ SubSeq(fileNameDisplay, 1, 27) = SubSeq(selectedFile, 1, 27)
             /\ SubSeq(fileNameDisplay, 28, 30) = "..."

\* a file with a name of exactly 30 characters is selected and shown whole
C13_Witness ==
    /\ selectedFile # NoFile
    /\ Len(selectedFile) = 30
    /\ fileNameDisplay = selectedFile

ErrorStatusShown == statusMessage.class = "status error"

ValidationMsgs ==
    { "Please select an image file first.",
      "(warning) Please select an image file first.",
      "(warning) Please enter both brand and model." }

\* C14 as stated: the results panel is never visible together with an error
\* status, and neither is visible while a request is in flight.
C14_ResultAndErrorExclusive ==
    /\ ~(~resultsHidden /\ ErrorStatusShown)
    /\ InFlight > 0 => (resultsHidden /\ ~ErrorStatusShown)

\* C14 as amended: neither is visible while a request is in flight, and the
\* only error status that can stand next to a visible results panel is the
\* validation message of a rejected submit.
C14_ExclusiveButValidation ==
    /\ InFlight > 0 => (resultsHidden /\ ~ErrorStatusShown)
    /\ (~resultsHidden /\ ErrorStatusShown) =>
          statusMessage.text \in ValidationMsgs

\* with a result on screen and the file still selected, part_000 rejected a
\* submit for its empty brand or model and left the result visible
C14_Witness ==
    /\ variant = "part000"
    /\ selectedFile # NoFile
    /\ event.kind = "submit"
    /\ ~event.valid
    /\ ~resultsHidden
    /\ ErrorStatusShown

\* a file with a name of 31 characters is selected and shown truncated
C13_WitnessLong ==
    /\ selectedFile # NoFile
    /\ Len(selectedFile) = 31
    /\ Len(fileNameDisplay) = 30

\* C15: a result that has just been put on screen comes from a request
\* submitted for the file that is selected now, also when the selection was
\* changed or cleared while the request was in flight.
C15_ResultForSelectedFile ==
    (event.kind = "done" /\ ~resultsHidden) =>
        /\ selectedFile # NoFile
        /\ event.file = selectedFile

\* C16: when the preview panel is visible a file is selected, and once no
\* read is pending the preview image is the one read from that file: a read
\* started for an earlier selection neither reveals nor overwrites it.
C16_PreviewOfSelectedFile ==
    ~previewHidden =>
        /\ selectedFile # NoFile
        /\ reads = << >> => previewSrc = DataURL(selectedFile)

FailedPrecondition ==
    /\ event.kind = "submit"
    /\ \/ event.file = NoFile
       \/ /\ variant = "part000"
          /\ (event.brand = "" \/ event.model = "")

\* C17: a submit that fails a precondition writes the status message and
\* nothing else: the submit control, its label and spinner, the results
\* panel, the preview and the displayed file name are as before, no handler
\* is started and the controller is not in Submitting.
C17_FailedSubmitOnlySetsStatus ==
    [][ FailedPrecondition' =>
          /\ UNCHANGED <<submitButton, resultsHidden, priceRange,
                         detectedInfo, previewHidden, previewSrc,
                         fileNameDisplay, selectedFile, handlers, reads>>
          /\ statusMessage'.class = "status error"
          /\ UIState' # "Submitting" ]_vars

\* a submit without a file was rejected and left the control enabled
C17_Witness ==
    /\ FailedPrecondition
    /\ event.file = NoFile
    /\ ErrorStatusShown
    /\ handlers = << >>
    /\ ~submitButton.disabled

====
